---------------------------- MODULE Spec2Model ----------------------------
(***************************************************************************)
(* Model of src/app.py: two provider adapters (OpenAIAdapter,              *)
(* GeminiAdapter), the BenchmarkRunner that calls them in order with       *)
(* per-adapter error isolation, and main(), which prints the report.       *)
(*                                                                         *)
(* Conventions.  A Python str handled only as a whole (prompt, provider    *)
(* name, model identifier, exception message) is a TLA+ string.  The       *)
(* response text, whose words are counted, is a sequence of one-character  *)
(* strings.  Clock readings are in milliseconds; a rounded latency is in   *)
(* centiseconds (round(latency, 2) keeps two decimals of a second).        *)
(* A Python exception is [type, args]; a vendor response is a tagged       *)
(* record; what generate does is an outcome record: it either returns a    *)
(* value or raises an exception.                                           *)
(***************************************************************************)
EXTENDS Integers, Sequences, FiniteSets, TLC

VARIABLES
    harness,    \* who drives the code: "generate", "runner" or "main"
    pc,         \* control location of the driver
    env,        \* process environment: which API keys are set
    prompt,     \* the prompt (input() in main, the argument of run / generate)
    adapters,   \* BenchmarkRunner.adapters (generate harness: the one adapter)
    idx,        \* position of the for loop of run in self.adapters (1-based)
    start,      \* the local `start` of the generate call in flight
    results,    \* the local `results` of run; after the return, the returned list
    invoked,    \* log: generate invocations of the current run, <<position, prompt>>
    calls,      \* log: vendor requests of the current run / generate call
    outcomes,   \* log: what each generate invocation of the current run did
    runs,       \* how many times run has been called on the runner
    roster,     \* the adapter list the runner was constructed with
    out,        \* lines printed on standard output, each the tuple of print's arguments
    ret,        \* generate harness: what the generate call did
    answer      \* generate harness: how the vendor call ended

vars == <<harness, pc, env, prompt, adapters, idx, start, results, invoked,
          calls, outcomes, runs, roster, out, ret, answer>>

---------------------------------------------------------------------------
(* Bounds of the model. *)

MaxLen == 3         \* longest response text, in characters
MaxTokens == 2      \* largest vendor-reported total token count
MaxClock == 8       \* largest clock reading, in milliseconds
MaxAdapters == 2    \* longest adapter sequence handed to BenchmarkRunner
MaxRuns == 2        \* most calls of run on one runner

---------------------------------------------------------------------------
(* Values. *)

Prompts == {"", "hi"}

Whitespace == {" ", "\n"}
Alphabet == {"a"} \cup Whitespace

RECURSIVE TextsOfLen(_)
TextsOfLen(n) ==
    IF n = 0 THEN {<<>>}
    ELSE {Append(t, c) : t \in TextsOfLen(n - 1), c \in Alphabet}

Texts == UNION {TextsOfLen(n) : n \in 0..MaxLen}

Clock == 0..MaxClock

NoArgs == [type |-> "Exception", args |-> <<>>]
Boom == [type |-> "Exception", args |-> <<"boom">>]
Exceptions == {NoArgs, Boom}

\* Attribute access on a response lacking the attribute.
AttributeError == [type |-> "AttributeError", args |-> <<"no attribute">>]

\* str(e) for an exception: the empty string without arguments, the argument
\* itself when there is one.
StrOfException(e) ==
    IF Len(e.args) = 0 THEN "" ELSE e.args[1]

\* What a vendor call can do: raise, return an object lacking the fields the
\* adapter reads, or return text with or without usage accounting.
Raise(e) == [tag |-> "raise", exc |-> e]
Malformed == [tag |-> "malformed"]
Normal(t, u, n) == [tag |-> "ok", text |-> t, hasUsage |-> u, total |-> n]

Responses ==
    {Raise(e) : e \in Exceptions} \cup {Malformed}
        \cup {Normal(t, FALSE, 0) : t \in Texts}
        \cup {Normal(t, TRUE, n) : t \in Texts, n \in 0..MaxTokens}

Returned(v) == [raised |-> FALSE, value |-> v]
Raised(e) == [raised |-> TRUE, exc |-> e]

---------------------------------------------------------------------------
(* Pure helpers of the adapters. *)

\* round(latency, 2): milliseconds to the nearest centisecond, ties to even.
Round2(ms) ==
    LET q == ms \div 10
        r == ms % 10
    IN  IF r < 5 THEN q
        ELSE IF r > 5 THEN q + 1
        ELSE IF q % 2 = 0 THEN q ELSE q + 1

\* A mutant of WordCount: text.split(" "), one more than the number of blanks.
RECURSIVE WordCountBlanks(_)
WordCountBlanks(t) ==
    IF t = <<>> THEN 1
    ELSE (IF Head(t) = " " THEN 1 ELSE 0) + WordCountBlanks(Tail(t))

\* len(text.split()): the number of maximal runs of non-whitespace characters.
RECURSIVE WordsFrom(_, _)
WordsFrom(t, inWord) ==
    IF t = <<>> THEN 0
    ELSE IF Head(t) \in Whitespace THEN WordsFrom(Tail(t), FALSE)
    ELSE (IF inWord THEN 0 ELSE 1) + WordsFrom(Tail(t), TRUE)

WordCount(t) == WordsFrom(t, FALSE)

---------------------------------------------------------------------------
(* Adapters. *)

OpenAIName == "OpenAI GPT-4.1-mini"
GeminiName == "Google Gemini 1.5 Flash"
OpenAIModel == "gpt-4.1-mini"
GeminiModel == "gemini-1.5-flash"

\* OpenAIAdapter() / GeminiAdapter(): the name and the client handle; the
\* handle holds the credential read from the environment: "unset" (getenv
\* gave None), "bad" (set, not accepted by the vendor) or "good".
OpenAIAdapter(key) == [kind |-> "openai", name |-> OpenAIName, key |-> key]
GeminiAdapter(key) == [kind |-> "gemini", name |-> GeminiName, key |-> key]

\* The request of self.client.responses.create / models.generate_content.
OpenAIRequest(p) == [model |-> OpenAIModel, input |-> p]
GeminiRequest(p) == [model |-> GeminiModel, input |-> p]

\* Mutant of OpenAIGenerate: a catch-all that returns an empty result instead
\* of letting the failure out.
OpenAIGenerateSwallow(self, resp, t0, t1) ==
    IF resp.tag # "ok"
    THEN Returned([provider |-> self.name, text |-> <<>>,
                   latency |-> Round2(t1 - t0), tokens |-> 0])
    ELSE Returned([provider |-> self.name,
                   text |-> resp.text,
                   latency |-> Round2(t1 - t0),
                   tokens |-> IF resp.hasUsage THEN resp.total ELSE 0])

\* OpenAIAdapter.generate after the request was sent at clock reading t0:
\* the vendor call ends with resp, the clock then reads t1.
OpenAIGenerate(self, resp, t0, t1) ==
    IF resp.tag = "raise" THEN Raised(resp.exc)
    ELSE IF resp.tag = "malformed" THEN Raised(AttributeError)
    ELSE Returned([provider |-> self.name,
                   text |-> resp.text,
                   latency |-> Round2(t1 - t0),
                   tokens |-> IF resp.hasUsage THEN resp.total ELSE 0])

\* GeminiAdapter.generate, likewise.
GeminiGenerate(self, resp, t0, t1) ==
    IF resp.tag = "raise" THEN Raised(resp.exc)
    ELSE IF resp.tag = "malformed" THEN Raised(AttributeError)
    ELSE Returned([provider |-> self.name,
                   text |-> resp.text,
                   latency |-> Round2(t1 - t0),
                   tokens |-> IF resp.hasUsage THEN resp.total
                              ELSE WordCount(resp.text)])


\* Test doubles of ModelAdapter: one whose generate always returns the same
\* value, one whose generate always raises the same exception.
FixedValue ==
    [provider |-> "canned", text |-> <<"a">>, latency |-> 7, tokens |-> 1]
FixedAdapter == [kind |-> "fixed", name |-> "mock", value |-> FixedValue]
RaisingAdapter(e) == [kind |-> "raising", name |-> "mock-raising", exc |-> e]

IsVendor(a) == a.kind \in {"openai", "gemini"}

\* adapter.generate's request, by dynamic dispatch.
Request(a, p) ==
    IF a.kind = "openai" THEN OpenAIRequest(p) ELSE GeminiRequest(p)

\* adapter.generate(prompt), by dynamic dispatch over the adapter's class.
Generate(a, resp, t0, t1) ==
    IF a.kind = "openai" THEN OpenAIGenerate(a, resp, t0, t1)
    ELSE IF a.kind = "gemini" THEN GeminiGenerate(a, resp, t0, t1)
    ELSE IF a.kind = "fixed" THEN Returned(a.value)
    ELSE Raised(a.exc)

---------------------------------------------------------------------------
(* A direct call of one vendor adapter's generate. *)

NoOutcome == [raised |-> FALSE]
NoAnswer == [tag |-> "none"]

InitGenerate ==
    /\ harness = "generate"
    /\ pc = "gen_idle"
    /\ env = [k \in {"OPENAI_API_KEY", "GEMINI_API_KEY"} |-> "good"]
    /\ prompt = ""
    /\ adapters \in {<<OpenAIAdapter("good")>>, <<GeminiAdapter("good")>>}
    /\ idx = 1
    /\ start = 0
    /\ results = <<>>
    /\ invoked = <<>>
    /\ calls = <<>>
    /\ outcomes = <<>>
    /\ runs = 0
    /\ roster = adapters
    /\ out = <<>>
    /\ ret = NoOutcome
    /\ answer = NoAnswer

\* generate(p) up to the point where the request is with the vendor.
GenerateCall(p, t0) ==
    /\ harness = "generate"
    /\ pc = "gen_idle"
    /\ prompt' = p
    /\ start' = t0
    /\ calls' = Append(calls, Request(adapters[1], p))
    /\ pc' = "gen_called"
    /\ UNCHANGED <<harness, env, adapters, idx, results, invoked, outcomes,
                   runs, roster, out, ret, answer>>

\* The vendor call ends with resp; generate reads the clock and returns or
\* raises.
GenerateReturn(resp, t1) ==
    /\ harness = "generate"
    /\ pc = "gen_called"
    /\ answer' = resp
    /\ ret' = Generate(adapters[1], resp, start, t1)
    /\ pc' = "gen_done"
    /\ UNCHANGED <<harness, env, prompt, adapters, idx, start, results,
                   invoked, calls, outcomes, runs, roster, out>>

NextGenerate ==
    \/ \E p \in Prompts, t0 \in Clock : GenerateCall(p, t0)
    \/ \E resp \in Responses, t1 \in Clock : GenerateReturn(resp, t1)

SpecGenerate == InitGenerate /\ [][NextGenerate]_vars

---------------------------------------------------------------------------
(* BenchmarkRunner. *)

\* What the runner and main harnesses let a vendor call do: a few of the
\* Responses, and the two extreme clock readings.
RunnerTexts == {<<>>, <<"a", " ", "a">>}
RunnerResponses ==
    {Raise(e) : e \in Exceptions} \cup {Malformed}
        \cup {Normal(t, FALSE, 0) : t \in RunnerTexts}
        \cup {Normal(t, TRUE, MaxTokens) : t \in RunnerTexts}
RunnerClock == {0, MaxClock}

\* How the vendor call of adapter a can end: without an accepted credential
\* the vendor refuses the request; a test double makes no vendor call.
Answers(a) ==
    IF ~IsVendor(a) THEN {NoAnswer}
    ELSE IF a.key # "good" THEN {Raise(e) : e \in Exceptions}
    ELSE RunnerResponses

Readings(a) == IF IsVendor(a) THEN RunnerClock ELSE {0}

\* Mutant of FreshResults: a list kept on the runner across calls of run.
StaleResults == results

\* results = [] at the start of run.
FreshResults == <<>>

\* Mutants of Collect: the error entry carries the exception's class instead
\* of its message; the returned value is rebuilt with the adapter's name; the
\* entry is put in front.
CollectRepr(res, a, o) ==
    IF o.raised
    THEN Append(res, [provider |-> a.name, error |-> o.exc.type])
    ELSE Append(res, o.value)

CollectRelabel(res, a, o) ==
    IF o.raised
    THEN Append(res, [provider |-> a.name, error |-> StrOfException(o.exc)])
    ELSE Append(res, [o.value EXCEPT !.provider = a.name])

CollectFront(res, a, o) ==
    IF o.raised
    THEN <<[provider |-> a.name, error |-> StrOfException(o.exc)]>> \o res
    ELSE <<o.value>> \o res

\* The body of the for loop of run once adapter a's generate has ended with
\* outcome o: the try branch appends the value, the except branch the error
\* entry.
Collect(res, a, o) ==
    IF o.raised
    THEN Append(res, [provider |-> a.name, error |-> StrOfException(o.exc)])
    ELSE Append(res, o.value)

\* Mutant of Advance: the loop stays on an adapter that failed (a retry).
AdvanceOnSuccess(i, o) == IF o.raised /\ Len(invoked) < i + 1 THEN i ELSE i + 1

\* The for loop moves to the next adapter, whatever the outcome.
Advance(i, o) == i + 1

\* run(p): the first lines of run.
RunStart(p) ==
    /\ prompt' = p
    /\ results' = FreshResults
    /\ idx' = 1
    /\ invoked' = <<>>
    /\ calls' = <<>>
    /\ outcomes' = <<>>
    /\ runs' = runs + 1
    /\ pc' = "loop"
    /\ UNCHANGED <<harness, env, adapters, start, roster, out, ret, answer>>

\* The loop takes the next adapter and calls its generate, which reads the
\* clock and sends its request.
Invoke ==
    /\ pc = "loop"
    /\ idx <= Len(adapters)
    /\ invoked' = Append(invoked, <<idx, prompt>>)
    /\ \E t0 \in Readings(adapters[idx]) : start' = t0
    /\ calls' = IF IsVendor(adapters[idx])
                THEN Append(calls, Request(adapters[idx], prompt))
                ELSE calls
    /\ pc' = "in_generate"
    /\ UNCHANGED <<harness, env, prompt, adapters, idx, results, outcomes,
                   runs, roster, out, ret, answer>>

\* generate returns or raises; the loop body appends its entry.
Complete ==
    /\ pc = "in_generate"
    /\ \E resp \in Answers(adapters[idx]), t1 \in Readings(adapters[idx]) :
           LET a == adapters[idx]
               o == Generate(a, resp, start, t1)
           IN  /\ outcomes' = Append(outcomes, o)
               /\ results' = Collect(results, a, o)
               /\ idx' = Advance(idx, o)
    /\ pc' = "loop"
    /\ UNCHANGED <<harness, env, prompt, adapters, start, invoked, calls,
                   runs, roster, out, ret, answer>>

\* return results
RunReturn ==
    /\ pc = "loop"
    /\ idx > Len(adapters)
    /\ pc' = "returned"
    /\ UNCHANGED <<harness, env, prompt, adapters, idx, start, results, invoked, calls,
                   outcomes, runs, roster, out, ret, answer>>

\* The adapters a caller may hand to BenchmarkRunner.
AdapterChoices ==
    {OpenAIAdapter("good"), GeminiAdapter("good"), FixedAdapter}
        \cup {RaisingAdapter(e) : e \in Exceptions}

RECURSIVE AdapterSeqs(_)
AdapterSeqs(n) ==
    IF n = 0 THEN {<<>>}
    ELSE AdapterSeqs(n - 1)
             \cup {Append(s, a) : s \in {q \in AdapterSeqs(n - 1) : Len(q) = n - 1},
                                  a \in AdapterChoices}

\* runner = BenchmarkRunner(adapters)
InitRunner ==
    /\ harness = "runner"
    /\ pc = "ready"
    /\ env = [k \in {"OPENAI_API_KEY", "GEMINI_API_KEY"} |-> "good"]
    /\ prompt = ""
    /\ adapters \in AdapterSeqs(MaxAdapters)
    /\ idx = 1
    /\ start = 0
    /\ results = <<>>
    /\ invoked = <<>>
    /\ calls = <<>>
    /\ outcomes = <<>>
    /\ runs = 0
    /\ roster = adapters
    /\ out = <<>>
    /\ ret = NoOutcome
    /\ answer = NoAnswer

\* A caller calls run, for the first time or again.
CallRun(p) ==
    /\ harness = "runner"
    /\ pc \in {"ready", "returned"}
    /\ runs < MaxRuns
    /\ RunStart(p)

RunSteps ==
    \/ Invoke
    \/ Complete
    \/ RunReturn

NextRunner ==
    \/ \E p \in Prompts : CallRun(p)
    \/ RunSteps

SpecRunner == InitRunner /\ [][NextRunner]_vars

---------------------------------------------------------------------------
(* main. *)

Keys == {"unset", "bad", "good"}

\* How a vendor client constructor can end for a credential: the source
\* passes whatever getenv gave to the vendor SDK, outside any try; only the
\* SDK decides whether a missing key (None) is refused at once.
ConstructorRaises(key) == IF key = "unset" THEN BOOLEAN ELSE {FALSE}

\* Lines printed by main, each with the arguments of its print call.
Header == [label |-> "--- MODEL-AGNOSTIC AI BENCHMARK ---"]
Rule == [rule |-> "-", width |-> 60]

\* Mutant of Block: an error entry is printed like a success, metrics blank.
BlockNoBranch(r) ==
    <<[label |-> "Provider:", name |-> r.provider],
      [label |-> "Latency:", latency |-> 0, unit |-> "seconds"],
      [label |-> "Token Count:", tokens |-> 0],
      [label |-> "Response:"],
      [text |-> IF "text" \in DOMAIN r THEN r.text ELSE <<>>],
      Rule>>

\* The body of the for loop of main for one entry r of results.
Block(r) ==
    <<[label |-> "Provider:", name |-> r.provider]>>
    \o (IF "error" \in DOMAIN r
        THEN <<[label |-> "ERROR:", error |-> r.error]>>
        ELSE <<[label |-> "Latency:", latency |-> r.latency, unit |-> "seconds"],
               [label |-> "Token Count:", tokens |-> r.tokens],
               [label |-> "Response:"],
               [text |-> r.text]>>)
    \o <<Rule>>

InitMain ==
    /\ harness = "main"
    /\ pc = "input"
    /\ env \in [{"OPENAI_API_KEY", "GEMINI_API_KEY"} -> Keys]
    /\ prompt = ""
    /\ adapters = <<>>
    /\ idx = 1
    /\ start = 0
    /\ results = <<>>
    /\ invoked = <<>>
    /\ calls = <<>>
    /\ outcomes = <<>>
    /\ runs = 0
    /\ roster = <<>>
    /\ out = <<>>
    /\ ret = NoOutcome
    /\ answer = NoAnswer

\* prompt = input(...): a line is read.
ReadPrompt(p) ==
    /\ harness = "main"
    /\ pc = "input"
    /\ prompt' = p
    /\ pc' = "construct_openai"
    /\ UNCHANGED <<harness, env, adapters, idx, start, results, invoked,
                   calls, outcomes, runs, roster, out, ret, answer>>

\* prompt = input(...): standard input is at its end; EOFError leaves main.
ReadPromptFails ==
    /\ harness = "main"
    /\ pc = "input"
    /\ pc' = "crashed_input"
    /\ UNCHANGED <<harness, env, prompt, adapters, idx, start, results,
                   invoked, calls, outcomes, runs, roster, out, ret, answer>>

\* OpenAIAdapter(): the first element of the list literal.
ConstructOpenAI ==
    /\ harness = "main"
    /\ pc = "construct_openai"
    /\ \E raises \in ConstructorRaises(env["OPENAI_API_KEY"]) :
           IF raises
           THEN /\ pc' = "crashed_construct"
                /\ UNCHANGED adapters
           ELSE /\ pc' = "construct_gemini"
                /\ adapters' = <<OpenAIAdapter(env["OPENAI_API_KEY"])>>
    /\ UNCHANGED <<harness, env, prompt, idx, start, results, invoked, calls,
                   outcomes, runs, roster, out, ret, answer>>

\* GeminiAdapter(), then runner = BenchmarkRunner(adapters).
ConstructGemini ==
    /\ harness = "main"
    /\ pc = "construct_gemini"
    /\ \E raises \in ConstructorRaises(env["GEMINI_API_KEY"]) :
           IF raises
           THEN /\ pc' = "crashed_construct"
                /\ UNCHANGED <<adapters, roster>>
           ELSE /\ pc' = "ready"
                /\ adapters' = Append(adapters, GeminiAdapter(env["GEMINI_API_KEY"]))
                /\ roster' = adapters'
    /\ UNCHANGED <<harness, env, prompt, idx, start, results, invoked, calls,
                   outcomes, runs, out, ret, answer>>

\* results = runner.run(prompt)
MainCallsRun ==
    /\ harness = "main"
    /\ pc = "ready"
    /\ RunStart(prompt)

\* The banner, printed once run has returned.
PrintHeader ==
    /\ harness = "main"
    /\ pc = "returned"
    /\ out' = Append(out, Header)
    /\ idx' = 1
    /\ pc' = "report"
    /\ UNCHANGED <<harness, env, prompt, adapters, start, results, invoked,
                   calls, outcomes, runs, roster, ret, answer>>

\* One pass of `for r in results`.
PrintBlock ==
    /\ harness = "main"
    /\ pc = "report"
    /\ idx <= Len(results)
    /\ out' = out \o Block(results[idx])
    /\ idx' = idx + 1
    /\ UNCHANGED <<harness, pc, env, prompt, adapters, start, results,
                   invoked, calls, outcomes, runs, roster, ret, answer>>

\* main returns.
MainReturn ==
    /\ harness = "main"
    /\ pc = "report"
    /\ idx > Len(results)
    /\ pc' = "done"
    /\ UNCHANGED <<harness, env, prompt, adapters, idx, start, results,
                   invoked, calls, outcomes, runs, roster, out, ret, answer>>

NextMain ==
    \/ \E p \in Prompts : ReadPrompt(p)
    \/ ReadPromptFails
    \/ ConstructOpenAI
    \/ ConstructGemini
    \/ MainCallsRun
    \/ RunSteps
    \/ PrintHeader
    \/ PrintBlock
    \/ MainReturn

SpecMain == InitMain /\ [][NextMain]_vars

---------------------------------------------------------------------------
(* The three drivers together. *)

Init == InitGenerate \/ InitRunner \/ InitMain
Next == NextGenerate \/ NextRunner \/ NextMain
Spec == Init /\ [][Next]_vars

---------------------------------------------------------------------------
(* Properties of BenchmarkRunner.run (checked under SpecRunner). *)

\* The entry run makes of outcome o of adapter a, field by field.
IsEntryOf(r, a, o) ==
    IF o.raised
    THEN /\ DOMAIN r = {"provider", "error"}
         /\ r.provider = a.name
         /\ r.error = StrOfException(o.exc)
    ELSE r = o.value

\* C1: run returns exactly one result per adapter, and result i is the one
\* adapter i produced: the i-th invocation was of position i, and result i
\* is the entry of that invocation's outcome, whichever adapters failed.
C1_CountAndOrder ==
    pc = "returned" =>
        /\ Len(results) = Len(adapters)
        /\ Len(outcomes) = Len(adapters)
        /\ \A i \in 1..Len(adapters) :
               /\ invoked[i][1] = i
               /\ outcomes[i].raised <=> "error" \in DOMAIN results[i]
               /\ IsEntryOf(results[i], adapters[i], outcomes[i])

C1_Witness ==
    /\ pc = "returned"
    /\ Len(adapters) = 2
    /\ adapters[1].name # adapters[2].name
    /\ outcomes[1].raised
    /\ ~outcomes[2].raised

\* C2 as stated: the result of an adapter that failed carries the adapter's
\* provider name and a non-empty error message, and the results of the
\* other adapters are the ones their own outcomes give.
C2_NonEmptyMessage ==
    pc = "returned" =>
        \A i \in 1..Len(results) :
            outcomes[i].raised =>
                /\ "error" \in DOMAIN results[i]
                /\ results[i].provider = adapters[i].name
                /\ results[i].error # ""
                /\ \A j \in 1..Len(results) :
                       j # i => IsEntryOf(results[j], adapters[j], outcomes[j])

\* C2, amended: the result of an adapter that failed has exactly the fields
\* provider and error, the adapter's name and str(e) of the exception, which
\* is empty exactly when the exception prints as the empty string; the
\* results of the other adapters are the ones their own outcomes give.
C2_ErrorResult ==
    pc = "returned" =>
        \A i \in 1..Len(results) :
            outcomes[i].raised =>
                /\ DOMAIN results[i] = {"provider", "error"}
                /\ results[i].provider = adapters[i].name
                /\ results[i].error =
                       (IF outcomes[i].exc.args = <<>> THEN ""
                        ELSE outcomes[i].exc.args[1])
                /\ \A j \in 1..Len(results) :
                       j # i => IsEntryOf(results[j], adapters[j], outcomes[j])

C2_Witness ==
    /\ pc = "returned"
    /\ Len(results) = 2
    /\ outcomes[1].raised
    /\ results[1].error = "boom"
    /\ ~outcomes[2].raised
    /\ IsVendor(adapters[2])

\* C6: within one run the invocations of generate are of positions 1, 2, ...
\* in order, each once and each with the prompt given to run; an invocation
\* starts only when every earlier one has ended; the vendor adapters' requests
\* carry that prompt; at the return every adapter has been invoked, also
\* after failures and for the empty prompt.
C6_EachOnceInOrder ==
    pc \in {"loop", "in_generate", "returned"} =>
        /\ \A k \in 1..Len(invoked) : invoked[k] = <<k, prompt>>
        /\ Len(invoked) = Len(outcomes) + (IF pc = "in_generate" THEN 1 ELSE 0)
        /\ Len(invoked) <= Len(adapters)
        /\ Len(calls) = Cardinality({k \in 1..Len(invoked) : IsVendor(adapters[k])})
        /\ \A c \in 1..Len(calls) : calls[c].input = prompt
        /\ pc = "returned" => Len(invoked) = Len(adapters)

C6_Witness ==
    /\ pc = "returned"
    /\ prompt = ""
    /\ Len(adapters) = 2
    /\ outcomes[1].raised
    /\ Len(invoked) = 2

\* C7: at the position of a test double whose generate always returns one
\* fixed value, run returns that value with the same fields and field
\* values, whatever the other adapters did.
C7_FixedUnchanged ==
    pc = "returned" =>
        \A i \in 1..Len(adapters) :
            adapters[i].kind = "fixed" =>
                /\ DOMAIN results[i] = {"provider", "text", "latency", "tokens"}
                /\ results[i].provider = "canned"
                /\ results[i].text = <<"a">>
                /\ results[i].latency = 7
                /\ results[i].tokens = 1

C7_Witness ==
    /\ pc = "returned"
    /\ Len(adapters) = 2
    /\ adapters[2].kind = "fixed"
    /\ outcomes[1].raised

\* C10: the runner's adapter sequence is the one it was constructed with,
\* names included, after any number of runs, and the list a run is building
\* or has returned holds exactly the entries of that run's outcomes.
C10_NoCarryOver ==
    /\ adapters = roster
    /\ pc \in {"loop", "in_generate", "returned"} =>
           /\ Len(results) = Len(outcomes)
           /\ \A i \in 1..Len(results) :
                  IsEntryOf(results[i], adapters[i], outcomes[i])
    /\ pc = "returned" => Len(results) = Len(adapters)

C10_Witness ==
    /\ pc = "returned"
    /\ runs = MaxRuns
    /\ Len(adapters) = 2
    /\ outcomes[2].raised

---------------------------------------------------------------------------
(* Properties of the adapters' generate (checked under SpecGenerate). *)

\* The whitespace-separated word count of a text, stated on its own: the
\* number of positions where a word begins.
Words(t) ==
    Cardinality({i \in 1..Len(t) :
                    /\ t[i] \notin Whitespace
                    /\ (i = 1 \/ t[i - 1] \in Whitespace)})

\* C3: a generate that returns gives a token count that is an integer >= 0
\* and a latency >= 0, for either adapter, every vendor response and every
\* pair of clock readings.
C3_NonNegative ==
    (pc = "gen_done" /\ ~ret.raised) =>
        /\ ret.value.tokens \in Nat
        /\ ret.value.latency >= 0

\* C4 as stated: when the response reports no usage, the token count
\* returned is the word count of the returned text, for either adapter.
C4_WordCountBothAdapters ==
    (pc = "gen_done" /\ answer.tag = "ok" /\ ~answer.hasUsage) =>
        /\ ~ret.raised
        /\ ret.value.tokens = Words(ret.value.text)

\* C4, amended: when the response reports no usage, the Gemini adapter
\* returns the word count of the returned text as the token count, and the
\* OpenAI adapter returns 0.
C4_FallbackPerAdapter ==
    (pc = "gen_done" /\ answer.tag = "ok" /\ ~answer.hasUsage) =>
        /\ ~ret.raised
        /\ ret.value.text = answer.text
        /\ adapters[1].kind = "gemini" => ret.value.tokens = Words(ret.value.text)
        /\ adapters[1].kind = "openai" => ret.value.tokens = 0

C4_Witness ==
    /\ pc = "gen_done"
    /\ adapters[1].kind = "gemini"
    /\ answer.tag = "ok"
    /\ ~answer.hasUsage
    /\ ~ret.raised
    /\ ret.value.text = <<"a", "\n", "a">>
    /\ ret.value.tokens = 2

\* C9: one invocation of generate sends exactly one request, with the
\* adapter's fixed model identifier and the prompt as given; when the vendor
\* call raises, generate raises that same exception and returns no value;
\* when the response lacks what generate reads, generate raises and returns
\* no value; in neither case is a second request sent.
C9_OneCallAndPropagation ==
    /\ pc = "gen_called" => (Len(calls) = 1 /\ ret = NoOutcome)
    /\ pc = "gen_done" =>
           /\ Len(calls) = 1
           /\ calls[1].input = prompt
           /\ calls[1].model =
                  (IF adapters[1].kind = "openai" THEN "gpt-4.1-mini"
                   ELSE "gemini-1.5-flash")
           /\ answer.tag = "raise" =>
                  (ret.raised /\ ret.exc = answer.exc /\ "value" \notin DOMAIN ret)
           /\ answer.tag = "malformed" =>
                  (ret.raised /\ "value" \notin DOMAIN ret)
           /\ answer.tag = "ok" => ~ret.raised

C9_Witness ==
    /\ pc = "gen_done"
    /\ adapters[1].kind = "openai"
    /\ prompt = ""
    /\ answer.tag = "raise"
    /\ ret.raised
    /\ Len(calls) = 1

---------------------------------------------------------------------------
(* Properties of main (checked under SpecMain). *)

\* C5: a missing or rejected credential is not noticed while main builds the
\* adapters; it shows only as the ErrorResult of that adapter's generate,
\* the other adapter is invoked all the same, and the report is printed.
C5_FailureOnlyAtCallTime ==
    /\ pc # "crashed_construct"
    /\ pc = "returned" =>
           /\ Len(invoked) = 2
           /\ \A i \in 1..2 :
                  adapters[i].key # "good" =>
                      (outcomes[i].raised /\ "error" \in DOMAIN results[i])

RulePositions == {i \in 1..Len(out) : out[i] = Rule}

\* Where the k-th block of the report ends and starts: at the k-th rule
\* line, and after the banner or the rule line before.
BlockEnd(k) ==
    CHOOSE q \in RulePositions :
        Cardinality({r \in RulePositions : r <= q}) = k

BlockStart(k) == IF k = 1 THEN 2 ELSE BlockEnd(k - 1) + 1

PrintedBlock(k) == SubSeq(out, BlockStart(k), BlockEnd(k))

\* C8: after the banner the report holds one block per result printed so
\* far, in adapter order, each ended by a rule line, all of them once main
\* returns.  The block of an adapter that raised is the provider line, the
\* ERROR line with the exception's message and the rule; the block of an
\* adapter that returned is the provider line, the latency, token count and
\* response lines with that adapter's values and the rule, with no ERROR
\* line.  Once run has been called main does not end early.
C8_Report ==
    /\ runs > 0 => pc \notin {"crashed_input", "crashed_construct"}
    /\ pc \in {"report", "done"} =>
           LET n == idx - 1 IN
           /\ out[1] = Header
           /\ Cardinality(RulePositions) = n
           /\ pc = "done" => n = Len(adapters)
           /\ n > 0 => out[Len(out)] = Rule
           /\ \A k \in 1..n :
                  LET b == PrintedBlock(k) IN
                  /\ b[1] = [label |-> "Provider:", name |-> adapters[k].name]
                  /\ IF outcomes[k].raised
                     THEN /\ Len(b) = 3
                          /\ b[2] = [label |-> "ERROR:",
                                     error |-> StrOfException(outcomes[k].exc)]
                     ELSE /\ Len(b) = 6
                          /\ b[2] = [label |-> "Latency:",
                                     latency |-> outcomes[k].value.latency,
                                     unit |-> "seconds"]
                          /\ b[3] = [label |-> "Token Count:",
                                     tokens |-> outcomes[k].value.tokens]
                          /\ b[4] = [label |-> "Response:"]
                          /\ b[5] = [text |-> outcomes[k].value.text]
                          /\ \A j \in 1..Len(b) : "error" \notin DOMAIN b[j]

C8_Witness ==
    /\ pc = "done"
    /\ Len(adapters) = 2
    /\ outcomes[1].raised
    /\ ~outcomes[2].raised
    /\ Cardinality(RulePositions) = 2
    /\ Len(out) = 10

=============================================================================
